---- MODULE Spec2Model ----
(***************************************************************************)
(* Model of game/pkg/gdextension/class_registry_c.c: the three C wrapper   *)
(* functions (trampolines) through which the host engine reaches the       *)
(* exported Go handlers go_create_instance, go_free_instance and           *)
(* go_method_call.                                                         *)
(*                                                                         *)
(* A host thread calls a wrapper with parameters of its choice; the        *)
(* wrapper invokes the handler; the handler (external code) writes through *)
(* the pointers it received and returns; the wrapper returns to the host.  *)
(* Besides the wrappers' own frames the model keeps what an observer of    *)
(* the boundary can see: the memory the pointers designate, the arguments  *)
(* each handler invocation received, and the two call histories.           *)
(***************************************************************************)
EXTENDS Integers, Sequences, FiniteSets, TLC

(* --- bounds ------------------------------------------------------------ *)
NThreads == 2      \* host threads of the concurrent specification
NAddr    == 2      \* non-null addresses
MaxCalls == 2      \* trampoline calls in one run (length of the histories)
MaxVal   == 1      \* memory cells hold 0..MaxVal

(* --- values ------------------------------------------------------------ *)
NULL    == 0
Addr    == 1..NAddr
Ptr     == {NULL} \cup Addr          \* void*, GDExtensionClassInstancePtr, ...
Val     == 0..MaxVal                 \* contents of a memory cell
NoValue == 0 - 1                     \* "nothing here" (no write, void result)
Threads == 1..NThreads
\* the instance pointers in play: the null instance and one instance
InstPtrs == {NULL, NAddr}
MainThread == CHOOSE t \in Threads : \A u \in Threads : t <= u

\* int64_t as four 16-bit limbs, most significant first, two's complement.
W16 == 2^16
I64(w3, w2, w1, w0) == <<w3, w2, w1, w0>>
I64Zero     == I64(0, 0, 0, 0)
I64MinusOne == I64(W16 - 1, W16 - 1, W16 - 1, W16 - 1)
I64Big      == I64(0, 1, 2^15, 1)            \* 2^32 + 2^31 + 1, not an int32
ArgCounts   == {I64Zero, I64MinusOne, I64Big}
\* what a conversion to int32_t and back would leave of an int64_t
I64Trunc32(n) == LET s == IF n[3] >= 2^15 THEN W16 - 1 ELSE 0
                 IN  I64(s, s, n[3], n[4])

(* --- frames: one trampoline call as the host makes it ------------------ *)
NoFrame == [role |-> "none", params |-> <<>>]
CreateFrames == {[role |-> "create", params |-> <<cu>>] : cu \in Ptr}
FreeFrames   == {[role |-> "free", params |-> <<cu, inst>>] :
                    cu \in Ptr, inst \in InstPtrs}
MethodFrames == {[role |-> "method", params |-> <<mu, inst, args, n, ret, err>>] :
                    mu \in {NULL, 1}, inst \in InstPtrs, args \in {NULL, 1},
                    n \in ArgCounts, ret \in Ptr, err \in {NULL, NAddr}}
Frames == CreateFrames \cup FreeFrames \cup MethodFrames

\* the calls made by concurrent host threads: a representative subset
ConcFrames ==
    {[role |-> "create", params |-> <<cu>>] : cu \in {NULL, 1}}
    \cup {[role |-> "free", params |-> <<1, NAddr>>]}
    \cup {[role |-> "method", params |-> <<1, NAddr, NULL, I64Big, NULL, NAddr>>]}

VARIABLES
    pc,       \* per thread: position of the host/wrapper
    frame,    \* per thread: the wrapper's parameters
    hstate,   \* per thread: position of the handler invocation
    hrole,    \* per thread: which handler was invoked
    hargs,    \* per thread: the arguments that handler received
    hret,     \* per thread: what the handler returned
    result,   \* per thread: what the wrapper returned to the host
    ninv,     \* per thread: handler invocations made by the current call
    mem,      \* the memory behind the non-null pointers
    wmem,     \* the memory as the handlers' writes alone leave it
    wrote,    \* per thread: the addresses its handler wrote in this call
    tlog,     \* history of trampoline calls (roles)
    hlog,     \* history of handler invocations (roles)
    freed     \* instances whose free call has completed

vars == <<pc, frame, hstate, hrole, hargs, hret, result, ninv, mem, wmem,
          wrote, tlog, hlog, freed>>

Init ==
    /\ pc = [t \in Threads |-> "idle"]
    /\ frame = [t \in Threads |-> NoFrame]
    /\ hstate = [t \in Threads |-> "none"]
    /\ hrole = [t \in Threads |-> "none"]
    /\ hargs = [t \in Threads |-> <<>>]
    /\ hret = [t \in Threads |-> NoValue]
    /\ result = [t \in Threads |-> NoValue]
    /\ ninv = [t \in Threads |-> 0]
    /\ mem = [a \in Addr |-> 0]
    /\ wmem = mem
    /\ wrote = [t \in Threads |-> {}]
    /\ tlog = <<>>
    /\ hlog = <<>>
    /\ freed = {}

(* --- the host ---------------------------------------------------------- *)
\* The host engine calls the registered callback of f.role with f.params.
HostCall(t, f) ==
    /\ pc[t] = "idle"
    /\ Len(tlog) < MaxCalls
    /\ pc' = [pc EXCEPT ![t] = "entered"]
    /\ frame' = [frame EXCEPT ![t] = f]
    /\ tlog' = Append(tlog, f.role)
    /\ UNCHANGED <<hstate, hrole, hargs, hret, result, ninv, mem, wmem,
                   wrote, hlog, freed>>

\* The host takes the result and is ready for its next call.
HostResume(t) ==
    /\ pc[t] = "returned"
    /\ pc' = [pc EXCEPT ![t] = "idle"]
    /\ freed' = IF frame[t].role = "free" /\ frame[t].params[2] # NULL
                THEN freed \cup {frame[t].params[2]} ELSE freed
    /\ frame' = [frame EXCEPT ![t] = NoFrame]
    /\ hstate' = [hstate EXCEPT ![t] = "none"]
    /\ hrole' = [hrole EXCEPT ![t] = "none"]
    /\ hargs' = [hargs EXCEPT ![t] = <<>>]
    /\ hret' = [hret EXCEPT ![t] = NoValue]
    /\ result' = [result EXCEPT ![t] = NoValue]
    /\ ninv' = [ninv EXCEPT ![t] = 0]
    /\ wrote' = [wrote EXCEPT ![t] = {}]
    /\ UNCHANGED <<mem, wmem, tlog, hlog>>

(* --- the wrappers ------------------------------------------------------ *)
\* The one statement of a wrapper body up to the point where control is in
\* the handler: the handler `role` is invoked with `args`.  A wrapper that
\* dereferenced a null pointer on the way (`derefs`) would fault instead.
Invoke(t, role, args, derefs) ==
    IF NULL \in derefs
    THEN /\ pc' = [pc EXCEPT ![t] = "fault"]
         /\ UNCHANGED <<frame, hstate, hrole, hargs, hret, result, ninv, mem,
                        wmem, wrote, tlog, hlog, freed>>
    ELSE /\ pc' = [pc EXCEPT ![t] = "calling"]
         /\ hstate' = [hstate EXCEPT ![t] = "running"]
         /\ hrole' = [hrole EXCEPT ![t] = role]
         /\ hargs' = [hargs EXCEPT ![t] = args]
         /\ ninv' = [ninv EXCEPT ![t] = ninv[t] + 1]
         /\ hlog' = Append(hlog, role)
         /\ UNCHANGED <<frame, hret, result, mem, wmem, wrote, tlog, freed>>

\* Control comes back from the handler and the wrapper returns `value`,
\* leaving the memory as `m` (a wrapper with no statement after the call
\* leaves it as it is).
Return(t, value, m) ==
    /\ pc' = [pc EXCEPT ![t] = "returned"]
    /\ result' = [result EXCEPT ![t] = value]
    /\ mem' = m
    /\ UNCHANGED <<frame, hstate, hrole, hargs, hret, ninv, wmem, wrote,
                   tlog, hlog, freed>>

\* A wrapper that returned without making its call would go this way.
NoCall(t) ==
    /\ pc' = [pc EXCEPT ![t] = "returned"]
    /\ UNCHANGED <<frame, hstate, hrole, hargs, hret, result, ninv, mem, wmem,
                   wrote, tlog, hlog, freed>>

\* return go_create_instance(class_userdata);
c_create_instance_args(p) == <<p[1]>>
c_create_instance_derefs(p) == {}
c_create_instance_result_default(r) == IF r = NULL THEN NAddr ELSE r
c_create_instance_result(r) == r

c_create_instance_wrapper(t) ==
    /\ pc[t] = "entered"
    /\ frame[t].role = "create"
    /\ Invoke(t, "create", c_create_instance_args(frame[t].params),
              c_create_instance_derefs(frame[t].params))

c_create_instance_wrapper_return_async(t) ==
    /\ pc[t] = "calling"
    /\ frame[t].role = "create"
    /\ Return(t, c_create_instance_result(hret[t]), mem)

c_create_instance_wrapper_return(t) ==
    /\ pc[t] = "calling"
    /\ frame[t].role = "create"
    /\ hstate[t] = "returned"
    /\ Return(t, c_create_instance_result(hret[t]), mem)

\* go_free_instance(class_userdata, instance);
c_free_instance_args_swapped(p) == <<p[2], p[1]>>
c_free_instance_args(p) == <<p[1], p[2]>>
c_free_instance_derefs(p) == {}

c_free_instance_wrapper_once(t) ==
    /\ pc[t] = "entered"
    /\ frame[t].role = "free"
    /\ IF frame[t].params[2] \in freed
       THEN NoCall(t)
       ELSE Invoke(t, "free", c_free_instance_args(frame[t].params),
                   c_free_instance_derefs(frame[t].params))

c_free_instance_wrapper(t) ==
    /\ pc[t] = "entered"
    /\ frame[t].role = "free"
    /\ Invoke(t, "free", c_free_instance_args(frame[t].params),
              c_free_instance_derefs(frame[t].params))

c_free_instance_wrapper_return_clear(t) ==
    /\ pc[t] = "calling"
    /\ frame[t].role = "free"
    /\ hstate[t] = "returned"
    /\ Return(t, NoValue, IF frame[t].params[2] # NULL
                          THEN [mem EXCEPT ![frame[t].params[2]] = 0]
                          ELSE mem)

c_free_instance_wrapper_return(t) ==
    /\ pc[t] = "calling"
    /\ frame[t].role = "free"
    /\ hstate[t] = "returned"
    /\ Return(t, NoValue, mem)

\* go_method_call(method_userdata, instance, args, arg_count, ret, error);
c_method_call_args_trunc(p) == <<p[1], p[2], p[3], I64Trunc32(p[4]), p[5], p[6]>>
c_method_call_args(p) == <<p[1], p[2], p[3], p[4], p[5], p[6]>>
c_method_call_derefs_args(p) == {p[3]}
c_method_call_derefs(p) == {}

c_method_call_wrapper_other_handler(t) ==
    /\ pc[t] = "entered"
    /\ frame[t].role = "method"
    /\ Invoke(t, "free", c_method_call_args(frame[t].params),
              c_method_call_derefs(frame[t].params))

c_method_call_wrapper_checked(t) ==
    /\ pc[t] = "entered"
    /\ frame[t].role = "method"
    /\ IF frame[t].params[6] = NULL
       THEN NoCall(t)
       ELSE Invoke(t, "method", c_method_call_args(frame[t].params),
                   c_method_call_derefs(frame[t].params))

c_method_call_wrapper(t) ==
    /\ pc[t] = "entered"
    /\ frame[t].role = "method"
    /\ Invoke(t, "method", c_method_call_args(frame[t].params),
              c_method_call_derefs(frame[t].params))

c_method_call_wrapper_return_reset(t) ==
    /\ pc[t] = "calling"
    /\ frame[t].role = "method"
    /\ hstate[t] = "returned"
    /\ Return(t, NoValue, IF frame[t].params[6] # NULL
                          THEN [mem EXCEPT ![frame[t].params[6]] = 0]
                          ELSE mem)

c_method_call_wrapper_return(t) ==
    /\ pc[t] = "calling"
    /\ frame[t].role = "method"
    /\ hstate[t] = "returned"
    /\ Return(t, NoValue, mem)

(* --- the handlers (external) ------------------------------------------- *)
\* The non-null addresses a handler writes through, given what it received:
\* go_method_call stores the return value and the error code.
Writable(role, a) ==
    IF role = "method" THEN {a[5], a[6]} \ {NULL} ELSE {}

go_handler_write(t, a, v) ==
    /\ hstate[t] = "running"
    /\ a \in Writable(hrole[t], hargs[t])
    /\ mem' = [mem EXCEPT ![a] = v]
    /\ wmem' = [wmem EXCEPT ![a] = v]
    /\ wrote' = [wrote EXCEPT ![t] = wrote[t] \cup {a}]
    /\ UNCHANGED <<pc, frame, hstate, hrole, hargs, hret, result, ninv,
                   tlog, hlog, freed>>

go_create_instance_return(t, r) ==
    /\ hstate[t] = "running"
    /\ hrole[t] = "create"
    /\ hstate' = [hstate EXCEPT ![t] = "returned"]
    /\ hret' = [hret EXCEPT ![t] = r]
    /\ UNCHANGED <<pc, frame, hrole, hargs, result, ninv, mem, wmem, wrote,
                   tlog, hlog, freed>>

go_void_handler_return(t) ==
    /\ hstate[t] = "running"
    /\ hrole[t] \in {"free", "method"}
    /\ hstate' = [hstate EXCEPT ![t] = "returned"]
    /\ UNCHANGED <<pc, frame, hrole, hargs, hret, result, ninv, mem, wmem,
                   wrote, tlog, hlog, freed>>

(* --- specifications ---------------------------------------------------- *)
Step(t) ==
    \/ c_create_instance_wrapper(t)
    \/ c_create_instance_wrapper_return(t)
    \/ c_free_instance_wrapper(t)
    \/ c_free_instance_wrapper_return(t)
    \/ c_method_call_wrapper(t)
    \/ c_method_call_wrapper_return(t)
    \/ \E a \in Addr, v \in Val : go_handler_write(t, a, v)
    \/ \E r \in InstPtrs : go_create_instance_return(t, r)
    \/ go_void_handler_return(t)
    \/ HostResume(t)

\* The host calls from one thread, with any parameters.
Next ==
    \/ \E f \in Frames : HostCall(MainThread, f)
    \/ Step(MainThread)

Spec == Init /\ [][Next]_vars

\* The host calls from several threads at once.
NextConc ==
    \/ \E t \in Threads, f \in ConcFrames : HostCall(t, f)
    \/ \E t \in Threads : Step(t)

SpecConc == Init /\ [][NextConc]_vars

(* --- properties -------------------------------------------------------- *)
Params(t) == frame[t].params
\* the wrapper of thread t is at or past its call statement
Forwarded(t) == pc[t] \in {"calling", "returned"}
\* the positions of a parameter list that hold pointers
PtrPositions(role) ==
    IF role = "create" THEN {1}
    ELSE IF role = "free" THEN {1, 2}
    ELSE {1, 2, 3, 5, 6}

\* C1: the value c_create_instance_wrapper returns is the value
\* go_create_instance returned for that call, the null instance included.
C1_CreateReturnsHandlerValue ==
    \A t \in Threads :
        (pc[t] = "returned" /\ frame[t].role = "create")
            => (hret[t] \in Ptr /\ result[t] = hret[t])

C1_Witness ==
    \E t \in Threads :
        /\ pc[t] = "returned" /\ frame[t].role = "create"
        /\ Params(t)[1] # NULL
        /\ hret[t] = NULL /\ result[t] = NULL

\* C2: go_method_call receives the six parameters of c_method_call_wrapper
\* in the same positions with the same values, the 64-bit arg_count included.
C2_MethodArgsIdentical ==
    \A t \in Threads :
        (Forwarded(t) /\ frame[t].role = "method")
            => /\ hrole[t] = "method"
               /\ Len(hargs[t]) = 6
               /\ \A i \in 1..6 : hargs[t][i] = Params(t)[i]

C2_Witness ==
    \E t \in Threads :
        /\ Forwarded(t) /\ frame[t].role = "method"
        /\ Params(t)[4] = I64Big
        /\ Params(t)[1] = NULL /\ Params(t)[2] # NULL
        /\ Params(t)[5] # NULL /\ Params(t)[6] # NULL
        /\ Params(t)[5] # Params(t)[6]
        /\ hargs[t][4] = I64Big

\* C3: a call of c_free_instance_wrapper invokes go_free_instance exactly
\* once, with class_userdata first and instance second, and returns nothing.
C3_FreeInvokedOnce ==
    \A t \in Threads :
        frame[t].role = "free"
            => /\ ninv[t] <= 1
               /\ pc[t] = "returned"
                    => /\ ninv[t] = 1
                       /\ hrole[t] = "free"
                       /\ hargs[t] = <<Params(t)[1], Params(t)[2]>>
                       /\ result[t] = NoValue

C3_Witness ==
    \E t \in Threads :
        /\ pc[t] = "returned" /\ frame[t].role = "free"
        /\ Params(t)[1] # Params(t)[2] /\ Params(t)[2] # NULL
        /\ ninv[t] = 1

\* C4: when c_method_call_wrapper has returned, the locations designated by
\* ret and error hold what go_method_call last wrote there, and the handler
\* was given the caller's own ret and error pointers.
C4_OutputsAsHandlerWrote ==
    \A t \in Threads :
        (pc[t] = "returned" /\ frame[t].role = "method")
            => /\ hargs[t][5] = Params(t)[5]
               /\ hargs[t][6] = Params(t)[6]
               /\ \A a \in {Params(t)[5], Params(t)[6]} \ {NULL} :
                      a \in wrote[t] => mem[a] = wmem[a]

C4_Witness ==
    \E t \in Threads :
        /\ pc[t] = "returned" /\ frame[t].role = "method"
        /\ Params(t)[5] # NULL /\ Params(t)[6] # NULL
        /\ Params(t)[5] # Params(t)[6]
        /\ wrote[t] = {Params(t)[5], Params(t)[6]}
        /\ mem[Params(t)[5]] # mem[Params(t)[6]]

\* C5: every trampoline call invokes one handler, the one of its role, so
\* the history of handler invocations equals the history of trampoline calls
\* (and lacks only the call being entered while its wrapper has not yet
\* reached its call statement).
C5_HistoriesAgree ==
    LET t == MainThread IN
    /\ Forwarded(t) => hrole[t] = frame[t].role
    /\ pc[t] \in {"idle", "calling", "returned"} => hlog = tlog
    /\ pc[t] = "entered" => hlog = SubSeq(tlog, 1, Len(tlog) - 1)

C5_Witness ==
    /\ pc[MainThread] = "idle"
    /\ Len(tlog) >= 2
    /\ tlog[1] # tlog[2]
    /\ hlog = tlog

\* C6: c_method_call_wrapper called with arg_count = 0 and a null args, with
\* a handler that writes error code 0, returns with error code 0 in the
\* error location, and no wrapper faults on a pointer it was given.
C6_NullArgsNoFault ==
    \A t \in Threads :
        /\ pc[t] # "fault"
        /\ ( /\ pc[t] = "returned" /\ frame[t].role = "method"
             /\ Params(t)[3] = NULL /\ Params(t)[4] = I64Zero
             /\ Params(t)[6] # NULL
             /\ Params(t)[6] \in wrote[t]
             /\ wmem[Params(t)[6]] = 0 )
           => mem[Params(t)[6]] = 0

C6_Witness ==
    \E t \in Threads :
        /\ pc[t] = "returned" /\ frame[t].role = "method"
        /\ Params(t)[3] = NULL /\ Params(t)[4] = I64Zero
        /\ Params(t)[6] # NULL
        /\ Params(t)[6] \in wrote[t]
        /\ wmem[Params(t)[6]] = 0
        /\ mem[Params(t)[6]] = 0

\* C7: what a handler receives and what the trampoline returns do not depend
\* on earlier calls: in a call that follows other calls (a method call on a
\* freed instance, a second free of it) the handler is still invoked once
\* with the call's own parameters.
C7_IndependentOfHistory ==
    \A t \in Threads :
        (Forwarded(t) /\ Len(tlog) > 1)
            => /\ ninv[t] = 1
               /\ hrole[t] = frame[t].role
               /\ Len(hargs[t]) = Len(Params(t))
               /\ \A i \in 1..Len(Params(t)) : hargs[t][i] = Params(t)[i]
               /\ (pc[t] = "returned" /\ frame[t].role = "create")
                      => result[t] = hret[t]

C7_Witness ==
    \E t \in Threads :
        /\ pc[t] = "returned" /\ frame[t].role = "free"
        /\ Params(t)[2] \in freed
        /\ ninv[t] = 1
        /\ hargs[t][2] = Params(t)[2]

\* C8: the bridge writes nothing: the memory is at every moment what the
\* handlers' writes have made of it, so a trampoline call whose handler
\* writes nothing leaves every location as it was.
C8_OnlyHandlerWrites ==
    mem = wmem

C8_Witness ==
    \E t \in Threads :
        /\ pc[t] = "returned" /\ frame[t].role = "method"
        /\ Params(t)[5] # NULL /\ Params(t)[6] # NULL
        /\ Params(t)[1] # NULL /\ Params(t)[2] # NULL /\ Params(t)[3] # NULL
        /\ wrote[t] = {}
        /\ mem[Params(t)[6]] # 0

\* C9: the bridge validates nothing and reports no error of its own: with a
\* null pointer among the parameters the handler is still invoked once with
\* those values, and the error location changes only by a handler write.
C9_NoValidation ==
    \A t \in Threads :
        /\ pc[t] # "fault"
        /\ (Forwarded(t) /\ \E i \in PtrPositions(frame[t].role) : Params(t)[i] = NULL)
              => /\ ninv[t] = 1
                 /\ hrole[t] = frame[t].role
                 /\ \A i \in PtrPositions(frame[t].role) : hargs[t][i] = Params(t)[i]
        /\ (frame[t].role = "method" /\ Params(t)[6] # NULL)
              => mem[Params(t)[6]] = wmem[Params(t)[6]]

C9_Witness ==
    \E t \in Threads :
        /\ pc[t] = "returned" /\ frame[t].role = "method"
        /\ \A i \in PtrPositions("method") : Params(t)[i] = NULL
        /\ ninv[t] = 1
        /\ \A i \in PtrPositions("method") : hargs[t][i] = NULL

\* C10: with concurrent host threads, each handler invocation has the
\* parameters of the call that made it, a trampoline call has returned only
\* if its own handler invocation has returned, and each create call returns
\* the result of its own handler invocation.
C10_NoCrossTalk ==
    \A t \in Threads :
        /\ Forwarded(t)
              => /\ ninv[t] = 1
                 /\ hrole[t] = frame[t].role
                 /\ Len(hargs[t]) = Len(Params(t))
                 /\ \A i \in 1..Len(Params(t)) : hargs[t][i] = Params(t)[i]
        /\ pc[t] = "returned" => hstate[t] = "returned"
        /\ (pc[t] = "returned" /\ frame[t].role = "create")
              => result[t] = hret[t]

C10_Witness ==
    \E t, u \in Threads :
        /\ t # u
        /\ pc[t] = "returned" /\ frame[t].role = "create"
        /\ pc[u] = "returned" /\ frame[u].role = "create"
        /\ Params(t) # Params(u)
        /\ hret[t] = NULL /\ hret[u] # NULL
        /\ result[t] = NULL /\ result[u] = hret[u]
====
